---- MODULE Spec2Model ----
(***************************************************************************)
(* Keyboard-shortcut dispatch of src/renderer/src/hooks/useKeyboard.ts.    *)
(*                                                                         *)
(* State: the binding list given to the hook, the index the effect builds  *)
(* from it, the two refs (altActionRef, nonModifierKeysDownRef), the       *)
(* exportConfirmOpen prop, and a record of what the last event did.        *)
(* Two history variables: the keys that are down, and the length of the    *)
(* run of keydown events of a held key.                                    *)
(* One action per listener: keydown, keyup, window blur, and the two       *)
(* re-renders (new binding list, new exportConfirmOpen).                   *)
(*                                                                         *)
(* A JS string is a sequence of pieces: a piece is the separator "+" or a  *)
(* run of characters free of "+".  <<>> is the empty string.               *)
(* Every record constructor lists its fields in one fixed order.           *)
(***************************************************************************)
EXTENDS Integers, Sequences, FiniteSets, TLC

VARIABLES
    keyBindings,              \* prop: KeyBinding[] (keys, action)
    keyBindingsByPrimaryKey,  \* closure of the effect: primaryKey -> NormalizedKeyBinding[]
    altActionRef,             \* useRef<boolean>
    nonModifierKeysDownRef,   \* useRef<Set<string>>
    exportConfirmOpen,        \* prop: boolean
    held,                     \* history: non-modifier codes whose latest event is keydown,
                              \* with no keyup of the code and no blur since
    last,                     \* the last event delivered and what the handlers did with it
    repeatCount               \* history, kept by SpecAutoRepeat: the length of the run of
                              \* consecutive keydown events of one key that the last
                              \* event ends, 0 after any other step

vars == <<keyBindings, keyBindingsByPrimaryKey, altActionRef, nonModifierKeysDownRef,
          exportConfirmOpen, held, last, repeatCount>>

----------------------------------------------------------------------------
(* Modifier classifier (../util: shiftModifiers, controlModifiers, ...)    *)

controlModifiers == {"ControlLeft", "ControlRight"}
shiftModifiers == {"ShiftLeft", "ShiftRight"}
altModifiers == {"AltLeft", "AltRight"}
metaModifiers == {"MetaLeft", "MetaRight"}
allModifiers == controlModifiers \cup shiftModifiers \cup altModifiers \cup metaModifiers

----------------------------------------------------------------------------
(* Inputs                                                                  *)

\* largest number of modifier flags active on one event
MaxMods == 1

\* largest number of bindings in a list of the normalizer's input space
MaxBindings == 2

\* largest number of tokens in a combination of the normalizer's input space
MaxTokens == 3

\* largest number of consecutive keydown events of one key (auto-repeat) counted
MaxRepeat == 3

undefined == "undefined"

Actions == {"export", "gotoTime", "seekForwards"}

\* keyUpActions: Record<string, () => void>, the actions with a release handler
keyUpActions == {"seekForwards"}

body == "body"
Targets == {body, "input"}

\* e.code of the events delivered
Codes == {"KeyA", "KeyB", "Escape", "AltLeft", "AltRight"}

\* the same with the code of a key the platform cannot identify: e.code = ""
UnidentifiedCodes == {"", "KeyB"}

\* the keys of the runs with a key held down
AutoRepeatCodes == {"KeyA", "KeyB"}

Flags == {"ctrl", "shift", "alt", "meta"}
ModStates == {m \in SUBSET Flags : Cardinality(m) <= MaxMods}

KB(keys, action) == [keys |-> keys, action |-> action]

\* the binding lists the application is configured with in this model
\* "a" and "shift+a"
PlainAndShift ==
    <<KB(<<"KeyA">>, "gotoTime"), KB(<<"ShiftLeft", "+", "KeyA">>, "seekForwards")>>

\* "b+a" listed before "a"
ChordFirst ==
    <<KB(<<"KeyB", "+", "KeyA">>, "seekForwards"), KB(<<"KeyA">>, "gotoTime")>>

\* "a" listed before "b+a"
ChordLast ==
    <<KB(<<"KeyA">>, "gotoTime"), KB(<<"KeyB", "+", "KeyA">>, "seekForwards")>>

\* an Alt chord, a binding on Escape, and the action the dialog lets through
AltEscapeExport ==
    <<KB(<<"AltLeft", "+", "KeyA">>, "gotoTime"), KB(<<"Escape">>, "seekForwards"),
      KB(<<"KeyB">>, "export")>>

\* modifiers before and after the primary key, and a chord of two modifiers
CtrlMeta ==
    <<KB(<<"ControlLeft", "+", "KeyA">>, "gotoTime"),
      KB(<<"KeyB", "+", "MetaRight">>, "export"),
      KB(<<"ShiftRight", "+", "AltRight", "+", "KeyB">>, "seekForwards")>>

KeyBindingLists == {PlainAndShift, ChordFirst, ChordLast, AltEscapeExport, CtrlMeta}

\* "a+a": a combination that names its primary key as an extra key too
SelfChord == <<KB(<<"KeyA", "+", "KeyA">>, "seekForwards")>>

AutoRepeatLists == {SelfChord, PlainAndShift, ChordFirst}

\* lists with malformed bindings: the empty combination, a token that is neither a
\* modifier name nor a key code
MalformedLists ==
    { <<KB(<<>>, "gotoTime")>>,
      <<KB(<<"Hyper", "+", "KeyB">>, "export")>>,
      <<KB(<<"KeyB", "+", "Hyper">>, "gotoTime"), KB(<<>>, "export")>> }

\* the input space of the normalizer: every list of one binding of up to MaxTokens
\* tokens, and every list of up to MaxBindings bindings of a pool that shares
\* primary keys
NormTokens == {"", "KeyA", "KeyB", "ShiftLeft", "ControlRight", "AltLeft", "MetaRight"}

TokenSeqs == UNION {[1..n -> NormTokens] : n \in 1..MaxTokens}

RECURSIVE JoinFrom(_, _)
JoinFrom(tokens, i) ==
    IF i > Len(tokens) THEN <<>>
    ELSE (IF i > 1 THEN <<"+">> ELSE <<>>)
         \o (IF tokens[i] = "" THEN <<>> ELSE <<tokens[i]>>)
         \o JoinFrom(tokens, i + 1)

\* tokens.join('+')
Join(tokens) == JoinFrom(tokens, 1)

OrderPool ==
    { KB(<<"KeyA">>, "gotoTime"), KB(<<"ShiftLeft", "+", "KeyA">>, "export"),
      KB(<<"KeyB", "+", "KeyA">>, "seekForwards"), KB(<<"KeyB">>, "export"),
      KB(<<"ShiftLeft">>, "gotoTime") }

NormInputs ==
    {<<KB(Join(t), "gotoTime")>> : t \in TokenSeqs}
    \cup UNION {[1..n -> OrderPool] : n \in 0..MaxBindings}

----------------------------------------------------------------------------
(* Binding normalizer                                                      *)

RECURSIVE SplitFrom(_, _, _, _)
SplitFrom(s, i, cur, out) ==
    IF i > Len(s) THEN Append(out, cur)
    ELSE IF s[i] = "+" THEN SplitFrom(s, i + 1, "", Append(out, cur))
    ELSE SplitFrom(s, i + 1, cur \o s[i], out)

\* kb.keys.split('+')
split(s) == SplitFrom(s, 1, "", <<>>)

IsNonModifier(key) == key \notin allModifiers

\* keys.filter((key) => !allModifiers.has(key))
nonModifierKeys(keys) == SelectSeq(keys, IsNonModifier)

\* keys.some((key) => set.has(key))
some(keys, set) == \E i \in 1..Len(keys) : keys[i] \in set

\* at(0) in place of at(-1)
primaryKeyOf_First(nm) == nm[1]

\* nonModifierKeys.at(-1)
primaryKeyOf(nm) == nm[Len(nm)]

\* new Set(nonModifierKeys.slice(0, -1))
extraNonModifierKeysOf(nm) == {nm[i] : i \in 1..(Len(nm) - 1)}

normalized(kb) ==
    LET keys == split(kb.keys)
        nm == nonModifierKeys(keys)
    IN  [keys |-> kb.keys,
         action |-> kb.action,
         primaryKey |-> primaryKeyOf(nm),
         extraNonModifierKeys |-> extraNonModifierKeysOf(nm),
         requireCtrl |-> some(keys, controlModifiers),
         requireShift |-> some(keys, shiftModifiers),
         requireAlt |-> some(keys, altModifiers),
         requireMeta |-> some(keys, metaModifiers)]

\* one step of the reduce: acc is a function from the primary keys seen so far
reducer(acc, kb) ==
    LET nm == nonModifierKeys(split(kb.keys))
    IN  IF Len(nm) = 0 THEN acc
        ELSE LET n == normalized(kb)
                 k == n.primaryKey
                 old == IF k \in DOMAIN acc THEN acc[k] ELSE <<>>
             IN  [p \in DOMAIN acc \cup {k} |-> IF p = k THEN Append(old, n) ELSE acc[p]]

RECURSIVE reduceFrom(_, _, _)
reduceFrom(kbs, i, acc) ==
    IF i > Len(kbs) THEN acc ELSE reduceFrom(kbs, i + 1, reducer(acc, kbs[i]))

\* keyBindings.reduce(reducer, {})
reduce(kbs) == reduceFrom(kbs, 1, <<>>)

----------------------------------------------------------------------------
(* Events and handlers                                                     *)

Event(type, code, mods, target) ==
    [type |-> type, code |-> code, target |-> target,
     ctrlKey |-> "ctrl" \in mods, shiftKey |-> "shift" \in mods,
     altKey |-> "alt" \in mods, metaKey |-> "meta" \in mods]

NoEvent(type) == Event(type, "", {}, body)

Call(fn, action) == [action |-> action, fn |-> fn]

\* what one run of a handler did
Outcome(calls, prevented, stopped, setAlt) ==
    [calls |-> calls, setAlt |-> setAlt,
     defaultPrevented |-> prevented, propagationStopped |-> stopped]

Nothing == Outcome(<<>>, FALSE, FALSE, FALSE)

\* getKeyboardAction(action): per its type a handler for every action
getKeyboardAction(action) == Call("trigger", action)

\* onKeyUp2 behind the focus check of onKeyDown2
onKeyUp2_Gated(e, action) ==
    IF e.target # body THEN Nothing
    ELSE IF action # undefined /\ action \in keyUpActions
    THEN Outcome(<<Call("release", action)>>, FALSE, FALSE, FALSE)
    ELSE Nothing

\* onKeyUp2 that consumes the event when the release handler has run
onKeyUp2_Consume(e, action) ==
    IF action # undefined /\ action \in keyUpActions
    THEN Outcome(<<Call("release", action)>>, TRUE, TRUE, FALSE)
    ELSE Nothing

\* onKeyUp2 that falls back on the trigger handler of an action with no release handler
onKeyUp2_Trigger(e, action) ==
    IF action # undefined /\ action \in keyUpActions
    THEN Outcome(<<Call("release", action)>>, FALSE, FALSE, FALSE)
    ELSE IF action # undefined
    THEN Outcome(<<getKeyboardAction(action)>>, FALSE, FALSE, FALSE)
    ELSE Nothing

onKeyUp2(e, action) ==
    IF action # undefined /\ action \in keyUpActions
    THEN Outcome(<<Call("release", action)>>, FALSE, FALSE, FALSE)
    ELSE Nothing

\* onKeyDown2 with the focus check dropped
onKeyDown2_AnyTarget(e, action, open) ==
    IF open /\ e.code = "Escape"
    THEN Outcome(<<Call("closeExportConfirm", undefined)>>, TRUE, TRUE, FALSE)
    ELSE IF open /\ action # "export" THEN Nothing
    ELSE IF action # undefined
    THEN Outcome(<<getKeyboardAction(action)>>, TRUE, TRUE, e.altKey)
    ELSE Nothing

\* onKeyDown2 with the dialog's restriction to export dropped
onKeyDown2_AnyAction(e, action, open) ==
    IF open /\ e.code = "Escape"
    THEN Outcome(<<Call("closeExportConfirm", undefined)>>, TRUE, TRUE, FALSE)
    ELSE IF e.target # body THEN Nothing
    ELSE IF action # undefined
    THEN Outcome(<<getKeyboardAction(action)>>, TRUE, TRUE, e.altKey)
    ELSE Nothing

\* onKeyDown2 with the focus check moved before the dialog's Escape
onKeyDown2_FocusFirst(e, action, open) ==
    IF e.target # body THEN Nothing
    ELSE IF open /\ e.code = "Escape"
    THEN Outcome(<<Call("closeExportConfirm", undefined)>>, TRUE, TRUE, FALSE)
    ELSE IF open /\ action # "export" THEN Nothing
    ELSE IF action # undefined
    THEN Outcome(<<getKeyboardAction(action)>>, TRUE, TRUE, e.altKey)
    ELSE Nothing

\* onKeyDown2 with the focus check skipped while the dialog is open
onKeyDown2_DialogAnyTarget(e, action, open) ==
    IF open /\ e.code = "Escape"
    THEN Outcome(<<Call("closeExportConfirm", undefined)>>, TRUE, TRUE, FALSE)
    ELSE IF open /\ action # "export" THEN Nothing
    ELSE IF ~open /\ e.target # body THEN Nothing
    ELSE IF action # undefined
    THEN Outcome(<<getKeyboardAction(action)>>, TRUE, TRUE, e.altKey)
    ELSE Nothing

onKeyDown2(e, action, open) ==
    IF open /\ e.code = "Escape"
    THEN Outcome(<<Call("closeExportConfirm", undefined)>>, TRUE, TRUE, FALSE)
    ELSE IF open /\ action # "export" THEN Nothing
    ELSE IF e.target # body THEN Nothing
    ELSE IF action # undefined
    THEN Outcome(<<getKeyboardAction(action)>>, TRUE, TRUE, e.altKey)
    ELSE Nothing

\* matches with "at least these modifiers" in place of equality
matches_AtLeast(kb, e, pressedNonModifiers) ==
    /\ kb.requireCtrl => e.ctrlKey
    /\ kb.requireShift => e.shiftKey
    /\ kb.requireAlt => e.altKey
    /\ kb.requireMeta => e.metaKey
    /\ \A requiredKey \in kb.extraNonModifierKeys : requiredKey \in pressedNonModifiers

\* matches with the extra keys not looked at
matches_NoExtraKeys(kb, e, pressedNonModifiers) ==
    /\ kb.requireCtrl = e.ctrlKey
    /\ kb.requireShift = e.shiftKey
    /\ kb.requireAlt = e.altKey
    /\ kb.requireMeta = e.metaKey

\* the predicate of find(): modifier equality and extra keys held
matches(kb, e, pressedNonModifiers) ==
    /\ kb.requireCtrl = e.ctrlKey
    /\ kb.requireShift = e.shiftKey
    /\ kb.requireAlt = e.altKey
    /\ kb.requireMeta = e.metaKey
    /\ \A requiredKey \in kb.extraNonModifierKeys : requiredKey \in pressedNonModifiers

NoBinding == [action |-> undefined]

\* find that returns the last match
find_Last(byPrimaryKey, e, pressedNonModifiers) ==
    LET list == IF e.code \in DOMAIN byPrimaryKey THEN byPrimaryKey[e.code] ELSE <<>>
        hits == {i \in 1..Len(list) : matches(list[i], e, pressedNonModifiers)}
    IN  IF hits = {} THEN NoBinding
        ELSE list[CHOOSE i \in hits : \A j \in hits : i >= j]

\* (keyBindingsByPrimaryKey[e.code] ?? []).find(...)
find(byPrimaryKey, e, pressedNonModifiers) ==
    LET list == IF e.code \in DOMAIN byPrimaryKey THEN byPrimaryKey[e.code] ELSE <<>>
        hits == {i \in 1..Len(list) : matches(list[i], e, pressedNonModifiers)}
    IN  IF hits = {} THEN NoBinding
        ELSE list[CHOOSE i \in hits : \A j \in hits : i <= j]

\* preventAltMenu that knows the left Alt key only
preventAltMenu_LeftOnly(e, altAction) ==
    e.type = "keyup" /\ altAction /\ e.code = "AltLeft"

\* the alt-menu suppression at the head of handleKeyEvent
preventAltMenu(e, altAction) ==
    e.type = "keyup" /\ altAction /\ e.code \in {"AltLeft", "AltRight"}

\* markDown that tracks modifier codes too
markDown_AnyCode(e, pressed) ==
    IF e.type = "keydown" THEN pressed \cup {e.code} ELSE pressed

\* nonModifierKeysDownRef.current.add(e.code) on keydown of a non-modifier
markDown(e, pressed) ==
    IF e.type = "keydown" /\ e.code \notin allModifiers THEN pressed \cup {e.code} ELSE pressed

\* pressedNonModifiers.delete(e.code) on keyup
markUp(e, pressed) ==
    IF e.type = "keyup" THEN pressed \ {e.code} ELSE pressed

\* closeExportConfirm(): the owner of the dialog closes it
closeExportConfirm(open) == FALSE

\* handleKeyEvent with the set the lookup sees and the condition of the handler call
\* as parameters
handleKeyEvent_Variant(e, seen, dispatch) ==
    LET suppress == preventAltMenu(e, altActionRef)
        alt1 == IF suppress THEN FALSE ELSE altActionRef
        isModifier == e.code \in allModifiers
        pressed1 == markDown(e, nonModifierKeysDownRef)
        matchingKeyBinding == find(keyBindingsByPrimaryKey, e, seen)
        out == IF ~dispatch THEN Nothing
               ELSE IF e.type = "keyup" THEN onKeyUp2(e, matchingKeyBinding.action)
               ELSE onKeyDown2(e, matchingKeyBinding.action, exportConfirmOpen)
        closed == \E i \in 1..Len(out.calls) : out.calls[i].fn = "closeExportConfirm"
    IN  /\ held' = IF e.code \in allModifiers THEN held
                   ELSE IF e.type = "keydown" THEN held \cup {e.code}
                   ELSE held \ {e.code}
        /\ UNCHANGED <<keyBindings, keyBindingsByPrimaryKey>>
        /\ IF isModifier
           THEN /\ altActionRef' = alt1
                /\ nonModifierKeysDownRef' = pressed1
                /\ UNCHANGED exportConfirmOpen
                /\ last' = [calls |-> <<>>, defaultPrevented |-> suppress,
                            propagationStopped |-> FALSE,
                            e |-> e, open |-> exportConfirmOpen, matching |-> NoBinding,
                            pressedAtMatch |-> pressed1]
           ELSE /\ altActionRef' = (alt1 \/ out.setAlt)
                /\ nonModifierKeysDownRef' = markUp(e, pressed1)
                /\ exportConfirmOpen' =
                       IF closed THEN closeExportConfirm(exportConfirmOpen)
                       ELSE exportConfirmOpen
                /\ last' = [calls |-> out.calls,
                            defaultPrevented |-> (suppress \/ out.defaultPrevented),
                            propagationStopped |-> out.propagationStopped,
                            e |-> e, open |-> exportConfirmOpen,
                            matching |-> matchingKeyBinding,
                            pressedAtMatch |-> seen]

\* handleKeyEvent with the lookup made before the code is added to the set
handleKeyEvent_MatchFirst(e) ==
    handleKeyEvent_Variant(e, nonModifierKeysDownRef, TRUE)

\* handleKeyEvent that drops the keydown events of a key that is down already
handleKeyEvent_NoRepeat(e) ==
    handleKeyEvent_Variant(e, markDown(e, nonModifierKeysDownRef),
                           ~(e.type = "keydown" /\ e.code \in nonModifierKeysDownRef))

handleKeyEvent(e) ==
    LET suppress == preventAltMenu(e, altActionRef)
        alt1 == IF suppress THEN FALSE ELSE altActionRef
        isModifier == e.code \in allModifiers
        pressed1 == markDown(e, nonModifierKeysDownRef)
        matchingKeyBinding == find(keyBindingsByPrimaryKey, e, pressed1)
        out == IF e.type = "keyup" THEN onKeyUp2(e, matchingKeyBinding.action)
               ELSE onKeyDown2(e, matchingKeyBinding.action, exportConfirmOpen)
        closed == \E i \in 1..Len(out.calls) : out.calls[i].fn = "closeExportConfirm"
    IN  /\ held' = IF e.code \in allModifiers THEN held
                   ELSE IF e.type = "keydown" THEN held \cup {e.code}
                   ELSE held \ {e.code}
        /\ UNCHANGED <<keyBindings, keyBindingsByPrimaryKey>>
        /\ IF isModifier
           THEN /\ altActionRef' = alt1
                /\ nonModifierKeysDownRef' = pressed1
                /\ UNCHANGED exportConfirmOpen
                /\ last' = [calls |-> <<>>, defaultPrevented |-> suppress,
                            propagationStopped |-> FALSE,
                            e |-> e, open |-> exportConfirmOpen, matching |-> NoBinding,
                            pressedAtMatch |-> pressed1]
           ELSE /\ altActionRef' = (alt1 \/ out.setAlt)
                /\ nonModifierKeysDownRef' = markUp(e, pressed1)
                /\ exportConfirmOpen' =
                       IF closed THEN closeExportConfirm(exportConfirmOpen)
                       ELSE exportConfirmOpen
                /\ last' = [calls |-> out.calls,
                            defaultPrevented |-> (suppress \/ out.defaultPrevented),
                            propagationStopped |-> out.propagationStopped,
                            e |-> e, open |-> exportConfirmOpen,
                            matching |-> matchingKeyBinding,
                            pressedAtMatch |-> pressed1]

\* the record of a step that is no key event; pressedAtMatch is the set it found
Idle(type) ==
    [calls |-> <<>>, defaultPrevented |-> FALSE, propagationStopped |-> FALSE,
     e |-> NoEvent(type), open |-> exportConfirmOpen, matching |-> NoBinding,
     pressedAtMatch |-> {}]

KeyEventIn(type, codes) ==
    \E code \in codes, mods \in ModStates, target \in Targets :
        /\ handleKeyEvent(Event(type, code, mods, target))
        /\ UNCHANGED repeatCount

\* the same events, with the runs of keydown events of one key counted up to MaxRepeat
AutoRepeatEventIn(type, codes) ==
    \E code \in codes, mods \in ModStates, target \in Targets :
        LET repeated == type = "keydown" /\ last.e.type = "keydown" /\ last.e.code = code
        IN  /\ repeated => repeatCount < MaxRepeat
            /\ handleKeyEvent(Event(type, code, mods, target))
            /\ repeatCount' = IF type # "keydown" THEN 0
                              ELSE IF repeated THEN repeatCount + 1 ELSE 1

handleKeyDown == KeyEventIn("keydown", Codes)

handleKeyUp == KeyEventIn("keyup", Codes)

handleKeyDownUnidentified == KeyEventIn("keydown", UnidentifiedCodes)

handleKeyUpUnidentified == KeyEventIn("keyup", UnidentifiedCodes)

handleKeyDownAutoRepeat == AutoRepeatEventIn("keydown", AutoRepeatCodes)

handleKeyUpAutoRepeat == AutoRepeatEventIn("keyup", AutoRepeatCodes)

\* a blur listener that forgets to clear the set
clearPressedNonModifiers_Keep ==
    /\ held' = {}
    /\ last' = [Idle("blur") EXCEPT !.pressedAtMatch = nonModifierKeysDownRef]
    /\ repeatCount' = 0
    /\ UNCHANGED <<keyBindings, keyBindingsByPrimaryKey, altActionRef, exportConfirmOpen,
                   nonModifierKeysDownRef>>

\* a blur listener that resets the Alt flag too
clearPressedNonModifiers_ResetAlt ==
    /\ nonModifierKeysDownRef' = {}
    /\ altActionRef' = FALSE
    /\ held' = {}
    /\ last' = [Idle("blur") EXCEPT !.pressedAtMatch = nonModifierKeysDownRef]
    /\ repeatCount' = 0
    /\ UNCHANGED <<keyBindings, keyBindingsByPrimaryKey, exportConfirmOpen>>

\* window 'blur'
clearPressedNonModifiers ==
    /\ nonModifierKeysDownRef' = {}
    /\ held' = {}
    /\ last' = [Idle("blur") EXCEPT !.pressedAtMatch = nonModifierKeysDownRef]
    /\ repeatCount' = 0
    /\ UNCHANGED <<keyBindings, keyBindingsByPrimaryKey, altActionRef, exportConfirmOpen>>

\* a re-render whose listeners keep the index of the old list
Rebind_Stale(kbs) ==
    /\ kbs # keyBindings
    /\ keyBindings' = kbs
    /\ last' = Idle("rebind")
    /\ repeatCount' = 0
    /\ UNCHANGED <<keyBindingsByPrimaryKey, altActionRef, nonModifierKeysDownRef,
                   exportConfirmOpen, held>>

\* re-render with a new keyBindings prop: the effect re-runs and rebuilds the index
Rebind(kbs) ==
    /\ kbs # keyBindings
    /\ keyBindings' = kbs
    /\ keyBindingsByPrimaryKey' = reduce(kbs)
    /\ last' = Idle("rebind")
    /\ repeatCount' = 0
    /\ UNCHANGED <<altActionRef, nonModifierKeysDownRef, exportConfirmOpen, held>>

RebindKeys == \E kbs \in KeyBindingLists : Rebind(kbs)

RebindMalformed == \E kbs \in MalformedLists : Rebind(kbs)

\* re-render with a new exportConfirmOpen prop (the dialog is opened or closed by its owner)
ExportConfirmChange ==
    /\ exportConfirmOpen' = ~exportConfirmOpen
    /\ last' = [Idle("render") EXCEPT !.open = ~exportConfirmOpen]
    /\ repeatCount' = 0
    /\ UNCHANGED <<keyBindings, keyBindingsByPrimaryKey, altActionRef,
                   nonModifierKeysDownRef, held>>

\* the state after the first render and its effects
Mounted(kbs) ==
    /\ keyBindings = kbs
    /\ keyBindingsByPrimaryKey = reduce(kbs)
    /\ altActionRef = FALSE
    /\ nonModifierKeysDownRef = {}
    /\ exportConfirmOpen = FALSE
    /\ held = {}
    /\ last = Idle("mount")
    /\ repeatCount = 0

Init == \E kbs \in KeyBindingLists : Mounted(kbs)

Next ==
    \/ handleKeyDown
    \/ handleKeyUp
    \/ clearPressedNonModifiers
    \/ RebindKeys
    \/ ExportConfirmChange

Spec == Init /\ [][Next]_vars

\* the same engine configured with malformed bindings, on a platform that delivers
\* events without a code
InitMalformed == \E kbs \in MalformedLists : Mounted(kbs)

NextMalformed ==
    \/ handleKeyDownUnidentified
    \/ handleKeyUpUnidentified
    \/ clearPressedNonModifiers
    \/ RebindMalformed
    \/ ExportConfirmChange

SpecMalformed == InitMalformed /\ [][NextMalformed]_vars

\* the same engine with keys held down: every keydown of a run of auto-repeat events
\* is counted
InitAutoRepeat == \E kbs \in AutoRepeatLists : Mounted(kbs)

NextAutoRepeat ==
    \/ handleKeyDownAutoRepeat
    \/ handleKeyUpAutoRepeat
    \/ clearPressedNonModifiers
    \/ ExportConfirmChange

SpecAutoRepeat == InitAutoRepeat /\ [][NextAutoRepeat]_vars

\* the normalizer alone: the hook has rendered with some binding list and its
\* effect has not run yet; the effect builds the index
InitNorm ==
    /\ keyBindings \in NormInputs
    /\ keyBindingsByPrimaryKey = <<>>
    /\ altActionRef = FALSE
    /\ nonModifierKeysDownRef = {}
    /\ exportConfirmOpen = FALSE
    /\ held = {}
    /\ last = Idle("pending")
    /\ repeatCount = 0

MountEffect ==
    /\ last.e.type = "pending"
    /\ keyBindingsByPrimaryKey' = reduce(keyBindings)
    /\ last' = Idle("mount")
    /\ UNCHANGED <<keyBindings, altActionRef, nonModifierKeysDownRef, exportConfirmOpen, held,
                   repeatCount>>

NextNorm == MountEffect

SpecNorm == InitNorm /\ [][NextNorm]_vars

----------------------------------------------------------------------------
(* Vocabulary of the properties, stated on the raw binding list and on the *)
(* record of the last event                                                *)

KeyDown == last.e.type = "keydown"
KeyUp == last.e.type = "keyup"
NonModifierEvent == last.e.code \notin allModifiers
Consumed == last.defaultPrevented /\ last.propagationStopped
NotConsumed == ~last.defaultPrevented /\ ~last.propagationStopped
Trigger(action) == Call("trigger", action)

\* the tokens of a combination, its non-modifier tokens, the modifier classes it names
Tokens(kb) == split(kb.keys)
NonModifierTokens(kb) == SelectSeq(Tokens(kb), IsNonModifier)
Names(kb, class) == \E i \in 1..Len(Tokens(kb)) : Tokens(kb)[i] \in class
RequiredMods(kb) ==
    {f \in Flags : \/ f = "ctrl" /\ Names(kb, controlModifiers)
                   \/ f = "shift" /\ Names(kb, shiftModifiers)
                   \/ f = "alt" /\ Names(kb, altModifiers)
                   \/ f = "meta" /\ Names(kb, metaModifiers)}
ActiveMods(e) ==
    {f \in Flags : \/ f = "ctrl" /\ e.ctrlKey
                   \/ f = "shift" /\ e.shiftKey
                   \/ f = "alt" /\ e.altKey
                   \/ f = "meta" /\ e.metaKey}
HasPrimary(kb) == Len(NonModifierTokens(kb)) > 0
Primary(kb) == NonModifierTokens(kb)[Len(NonModifierTokens(kb))]
Extras(kb) == {NonModifierTokens(kb)[i] : i \in 1..(Len(NonModifierTokens(kb)) - 1)}

\* the raw binding kb matches event e when the keys of the set down are held
RawMatches(kb, e, down) ==
    /\ HasPrimary(kb)
    /\ Primary(kb) = e.code
    /\ RequiredMods(kb) = ActiveMods(e)
    /\ Extras(kb) \subseteq down

\* positions of the binding list that match the last event
Matching == {i \in 1..Len(keyBindings) : RawMatches(keyBindings[i], last.e, last.pressedAtMatch)}
FirstMatching == CHOOSE i \in Matching : \A j \in Matching : i <= j

\* C1: with no dialog open, a key-down of a non-modifier key that a binding matches
\* invokes the matched action's trigger handler exactly once and is consumed when
\* the target is the document body; with any other target nothing is invoked and the
\* event is not consumed.
C1_FocusGate ==
    (KeyDown /\ ~last.open /\ NonModifierEvent /\ Matching # {}) =>
        IF last.e.target = body
        THEN last.calls = <<Trigger(keyBindings[FirstMatching].action)>> /\ Consumed
        ELSE last.calls = <<>> /\ NotConsumed

C1_Witness ==
    /\ KeyDown /\ ~last.open /\ last.e.target = body
    /\ last.e.code = "KeyA" /\ last.e.ctrlKey
    /\ last.calls = <<Trigger("gotoTime")>> /\ Consumed

\* C2: the binding matched by an event requires exactly the modifiers active on the
\* event, never fewer and never more; with "a" -> gotoTime and "shift+a" ->
\* seekForwards, key-down of a with shift alone dispatches seekForwards only and
\* key-down of a with no modifier dispatches gotoTime only.
C2_ExactModifiers ==
    /\ last.matching # NoBinding => RequiredMods(last.matching) = ActiveMods(last.e)
    /\ (KeyDown /\ keyBindings = PlainAndShift /\ last.e.code = "KeyA"
            /\ ~last.open /\ last.e.target = body) =>
        /\ ActiveMods(last.e) = {"shift"} => last.calls = <<Trigger("seekForwards")>>
        /\ ActiveMods(last.e) = {} => last.calls = <<Trigger("gotoTime")>>

C2_Witness ==
    /\ KeyDown /\ keyBindings = PlainAndShift /\ last.e.code = "KeyA"
    /\ ActiveMods(last.e) = {"shift"}
    /\ last.calls = <<Trigger("seekForwards")>>

\* the entries indexed under the code of the last event
Entries ==
    IF last.e.code \in DOMAIN keyBindingsByPrimaryKey
    THEN keyBindingsByPrimaryKey[last.e.code] ELSE <<>>
ModsEqual(kb) ==
    /\ kb.requireCtrl = last.e.ctrlKey /\ kb.requireShift = last.e.shiftKey
    /\ kb.requireAlt = last.e.altKey /\ kb.requireMeta = last.e.metaKey
\* the gate of section 4.5 lets the action of kb through
GateSatisfied(kb) ==
    IF last.open THEN last.e.code # "Escape" /\ kb.action = "export" /\ last.e.target = body
    ELSE last.e.target = body
Dispatched(kb) == last.matching = kb /\ last.calls = <<Trigger(kb.action)>>

\* C3 as stated: a binding with extra keys whose modifiers and gate are satisfied is
\* dispatched on key-down of its primary key if and only if all its extra keys are
\* down (went down, with no key-up and no blur since).
C3_Original ==
    (KeyDown /\ NonModifierEvent) =>
        \A i \in 1..Len(Entries) :
            LET kb == Entries[i]
            IN  (kb.extraNonModifierKeys # {} /\ ModsEqual(kb) /\ GateSatisfied(kb)) =>
                    (Dispatched(kb) <=> kb.extraNonModifierKeys \subseteq held)

\* C3 as amended: ... if and only if all its extra keys are down and no binding
\* listed before it under the same primary key matches the event.
C3_ExtraKeys ==
    (KeyDown /\ NonModifierEvent) =>
        \A i \in 1..Len(Entries) :
            LET kb == Entries[i]
                shadowed == \E j \in 1..(i - 1) :
                                /\ ModsEqual(Entries[j])
                                /\ Entries[j].extraNonModifierKeys \subseteq held
            IN  (kb.extraNonModifierKeys # {} /\ ModsEqual(kb) /\ GateSatisfied(kb)) =>
                    (Dispatched(kb) <=> (kb.extraNonModifierKeys \subseteq held /\ ~shadowed))

C3_Witness ==
    /\ KeyDown /\ last.e.code = "KeyA"
    /\ last.matching # NoBinding
    /\ last.matching.extraNonModifierKeys = {"KeyB"}
    /\ last.calls = <<Trigger("seekForwards")>>

\* C4 as stated: while the dialog is open no key-down invokes the trigger handler of
\* an action other than export, and a key-down that matches a binding of another
\* action is not consumed and leaves AltActionFired as it was.
C4_Original ==
    [][(last'.e.type = "keydown" /\ last'.open) =>
          /\ \A i \in 1..Len(last'.calls) :
                 last'.calls[i].fn = "trigger" => last'.calls[i].action = "export"
          /\ (last'.matching # NoBinding /\ last'.matching.action # "export") =>
                 /\ ~last'.defaultPrevented /\ ~last'.propagationStopped
                 /\ altActionRef' = altActionRef]_vars

\* C4 as amended: ... a key-down that matches no binding of export leaves
\* AltActionFired as it was and, unless its key is Escape, is not consumed.
C4_DialogGate ==
    [][(last'.e.type = "keydown" /\ last'.open) =>
          /\ \A i \in 1..Len(last'.calls) :
                 last'.calls[i].fn = "trigger" => last'.calls[i].action = "export"
          /\ last'.matching.action # "export" =>
                 /\ altActionRef' = altActionRef
                 /\ last'.e.code # "Escape" =>
                        ~last'.defaultPrevented /\ ~last'.propagationStopped]_vars

C4_Witness ==
    /\ KeyDown /\ last.open /\ last.e.target = body
    /\ last.e.altKey /\ last.matching.action = "gotoTime"
    /\ last.calls = <<>> /\ NotConsumed /\ ~altActionRef

\* C5: while the dialog is open every Escape key-down calls the close callback exactly
\* once, invokes nothing else and is consumed, whatever the target, the modifiers,
\* the keys down and the bindings.
C5_EscapeCloses ==
    (KeyDown /\ last.open /\ last.e.code = "Escape") =>
        last.calls = <<Call("closeExportConfirm", undefined)>> /\ Consumed

C5_Witness ==
    /\ KeyDown /\ last.open /\ last.e.code = "Escape"
    /\ last.e.target = "input" /\ "KeyA" \in last.pressedAtMatch
    /\ last.matching.action = "seekForwards"
    /\ last.calls = <<Call("closeExportConfirm", undefined)>> /\ Consumed

AltKeyUp(e) == e.type = "keyup" /\ e.code \in {"AltLeft", "AltRight"}

\* C6: a key-down with the Alt flag active that invokes a trigger handler sets
\* AltActionFired; the flag then stays set until the next key-up of AltLeft or
\* AltRight, which is consumed (default prevented) and resets it; an Alt key-up
\* found with the flag false is not consumed.
C6_AltSuppression ==
    [][/\ AltKeyUp(last'.e) =>
              (last'.defaultPrevented <=> altActionRef) /\ ~altActionRef'
       /\ (/\ last'.e.type = "keydown" /\ last'.e.altKey
           /\ \E i \in 1..Len(last'.calls) : last'.calls[i].fn = "trigger") => altActionRef'
       /\ (altActionRef /\ ~AltKeyUp(last'.e)) => altActionRef']_vars

C6_Witness ==
    /\ AltKeyUp(last.e) /\ last.e.code = "AltRight"
    /\ last.defaultPrevented /\ ~altActionRef

\* C7: right after a window blur the set of pressed keys is empty, and a binding
\* matches a key-down only if each of its extra keys went down with no key-up and no
\* blur since.
C7_BlurClears ==
    /\ last.e.type = "blur" => nonModifierKeysDownRef = {}
    /\ (KeyDown /\ last.matching # NoBinding) =>
           last.matching.extraNonModifierKeys \subseteq held

C7_Witness ==
    /\ last.e.type = "blur" /\ "KeyB" \in last.pressedAtMatch
    /\ nonModifierKeysDownRef = {}

\* C10: the set of pressed keys holds exactly the non-modifier codes whose latest
\* event is a key-down with no key-up of the code and no blur since, and never a
\* modifier code, whatever the target and the dialog state of the events.
C10_PressedKeySet ==
    /\ nonModifierKeysDownRef = held
    /\ nonModifierKeysDownRef \cap allModifiers = {}

C10_Witness ==
    /\ KeyDown /\ last.e.code \in allModifiers
    /\ last.open /\ last.e.target = "input"
    /\ nonModifierKeysDownRef = {"KeyA", "KeyB"}

\* the number of bindings up to position i indexed under the primary key of binding i
Rank(i) ==
    Cardinality({j \in 1..i : /\ HasPrimary(keyBindings[j])
                              /\ Primary(keyBindings[j]) = Primary(keyBindings[i])})

\* the events and sets of keys down a lookup can be made with
LookupEvents ==
    {Event("keydown", code, mods, body) : code \in NormTokens \ allModifiers,
                                          mods \in SUBSET Flags}

KeyCodeNames == {"KeyA", "KeyB", "Escape"}

\* the empty combination, or a token that is neither a modifier name nor a key code
Malformed(kb) ==
    \/ kb.keys = <<>>
    \/ \E i \in 1..Len(Tokens(kb)) :
           Tokens(kb)[i] \notin allModifiers \cup KeyCodeNames

\* C9: malformed bindings are left out of the index, so that no key event, not even
\* one whose code is the empty string, matches a malformed binding and invokes its
\* handler.
C9_MalformedNeverDispatched ==
    (last.matching # NoBinding /\ Malformed(last.matching)) => last.calls = <<>>

Release(action) == Call("release", action)

\* C11: when a key-down of a key has invoked the trigger handler of an action that has
\* a release handler, the key-up of that key that follows invokes this release
\* handler, whatever modifiers and extra keys are still down by then.
C11_ReleasePairing ==
    [][(/\ KeyDown /\ NonModifierEvent
        /\ \E action \in keyUpActions : last.calls = <<Trigger(action)>>
        /\ last'.e.type = "keyup" /\ last'.e.code = last.e.code) =>
            last'.calls = <<Release(last.calls[1].action)>>]_vars

\* C12 as stated: on key-up of a non-modifier key no release handler is invoked when
\* no dialog is open and the target is not the document body, and while the dialog
\* is open no release handler of an action other than export is invoked.
C12_Original ==
    (KeyUp /\ NonModifierEvent) =>
        \A i \in 1..Len(last.calls) :
            last.calls[i].fn = "release" =>
                IF last.open THEN last.calls[i].action = "export"
                ELSE last.e.target = body

\* C12 as amended: the gate applies to key-down only; on key-up of a non-modifier key
\* the release handler of the matched action, when it has one, is invoked whatever
\* the target and whether or not the dialog is open.
C12_KeyUpUngated ==
    (KeyUp /\ NonModifierEvent /\ Matching # {}
        /\ keyBindings[FirstMatching].action \in keyUpActions) =>
            last.calls = <<Release(keyBindings[FirstMatching].action)>>

C12_Witness ==
    /\ KeyUp /\ last.open /\ last.e.target = "input"
    /\ last.calls = <<Release("seekForwards")>>

\* C13 as stated: while the dialog is open, a key-down whose matched action is export
\* invokes export's trigger handler and is consumed whatever its target.
C13_Original ==
    (KeyDown /\ last.open /\ last.e.code # "Escape" /\ last.matching.action = "export") =>
        last.calls = <<Trigger("export")>> /\ Consumed

\* C13 as amended: the focus check applies while the dialog is open too; a key-down
\* whose matched action is export invokes export's trigger handler and is consumed
\* when its target is the document body, and does nothing with any other target.
C13_FocusCheckInDialog ==
    (KeyDown /\ last.open /\ last.e.code # "Escape" /\ last.matching.action = "export") =>
        IF last.e.target = body
        THEN last.calls = <<Trigger("export")>> /\ Consumed
        ELSE last.calls = <<>> /\ NotConsumed

C13_Witness ==
    /\ KeyDown /\ last.open /\ last.matching.action = "export"
    /\ last.e.target = "input"
    /\ last.calls = <<>> /\ NotConsumed

\* C14: a key event invokes at most one handler, the one of the first binding in input
\* order among those whose primary key is the event's code, whose modifiers equal
\* the event's flags and whose extra keys are all pressed; a later binding that
\* matches too is not dispatched: with "a" listed before "b+a", key-down of a while b
\* is held dispatches the action of "a".
C14_FirstMatch ==
    /\ Len(last.calls) <= 1
    /\ ((KeyDown \/ KeyUp) /\ NonModifierEvent) =>
           /\ last.matching = IF Matching = {} THEN NoBinding
                              ELSE normalized(keyBindings[FirstMatching])
           /\ \A i \in 1..Len(last.calls) :
                  last.calls[i].fn \in {"trigger", "release"} =>
                      last.calls[i].action = last.matching.action
    /\ (KeyDown /\ keyBindings = ChordLast /\ last.e.code = "KeyA"
            /\ ActiveMods(last.e) = {} /\ "KeyB" \in last.pressedAtMatch
            /\ ~last.open /\ last.e.target = body) =>
           last.calls = <<Trigger("gotoTime")>>

C14_Witness ==
    /\ KeyDown /\ keyBindings = ChordLast /\ last.e.code = "KeyA"
    /\ Matching = {1, 2}
    /\ last.calls = <<Trigger("gotoTime")>>

\* C15 as stated: the code of a key event is in the set of pressed keys when the
\* bindings are matched, on key-down and on key-up alike, so the combination "a+a"
\* matches on key-down of a and on key-up of a.
C15_Original ==
    ((KeyDown \/ KeyUp) /\ NonModifierEvent) =>
        /\ last.e.code \in last.pressedAtMatch
        /\ (keyBindings = SelfChord /\ last.e.code = "KeyA" /\ ActiveMods(last.e) = {}) =>
               last.matching.action = "seekForwards"

\* C15 as amended: on key-down the code is added to the set before the bindings are
\* matched, and on key-up it is removed after the release handler has run; at match
\* time the set holds the code on every key-down, and on a key-up only if the key
\* went down with no key-up and no blur since; "a+a" matches on key-down of a from
\* the empty set, and on key-up of a in that case only.
C15_OrderedUpdate ==
    [][(last'.e.type \in {"keydown", "keyup"} /\ last'.e.code \notin allModifiers) =>
          LET code == last'.e.code
              selfChord == /\ keyBindings = SelfChord /\ code = "KeyA"
                           /\ ActiveMods(last'.e) = {}
          IN  IF last'.e.type = "keydown"
              THEN /\ last'.pressedAtMatch = nonModifierKeysDownRef \cup {code}
                   /\ nonModifierKeysDownRef' = nonModifierKeysDownRef \cup {code}
                   /\ selfChord => last'.matching.action = "seekForwards"
              ELSE /\ last'.pressedAtMatch = nonModifierKeysDownRef
                   /\ nonModifierKeysDownRef' = nonModifierKeysDownRef \ {code}
                   /\ code \in last'.pressedAtMatch <=> code \in held
                   /\ selfChord =>
                          /\ last'.matching # NoBinding <=> code \in held
                          /\ code \in held => last'.calls = <<Release("seekForwards")>>]_vars

C15_Witness ==
    /\ KeyUp /\ keyBindings = SelfChord /\ last.e.code = "KeyA"
    /\ last.pressedAtMatch = {"KeyA"}
    /\ last.calls = <<Release("seekForwards")>>
    /\ nonModifierKeysDownRef = {}

\* C16: the default of an event is prevented exactly when it is a key-down on which a
\* trigger handler was invoked, an Escape key-down while the dialog is open, or a
\* key-up of AltLeft or AltRight found with AltActionFired set; its propagation is
\* stopped in the first two cases only; a key-down that matches nothing or is
\* blocked by the gate, and every key-up of a non-modifier key, are left alone.
C16_Consumption ==
    [][LET e == last'.e
           triggered == \E i \in 1..Len(last'.calls) : last'.calls[i].fn = "trigger"
           dispatching == e.type = "keydown" /\ triggered
           closing == e.type = "keydown" /\ e.code = "Escape" /\ exportConfirmOpen
           altMenu == AltKeyUp(e) /\ altActionRef
       IN  /\ last'.defaultPrevented <=> (dispatching \/ closing \/ altMenu)
           /\ last'.propagationStopped <=> (dispatching \/ closing)
           /\ (e.type = "keydown" /\ last'.calls = <<>>) =>
                  ~last'.defaultPrevented /\ ~last'.propagationStopped
           /\ (e.type = "keyup" /\ e.code \notin allModifiers) =>
                  ~last'.defaultPrevented /\ ~last'.propagationStopped]_vars

C16_Witness ==
    /\ KeyUp /\ NonModifierEvent /\ altActionRef
    /\ last.calls = <<Release("seekForwards")>>
    /\ NotConsumed

\* C17: a change of the binding list replaces the whole index by the index of the new
\* list in one step and leaves the set of pressed keys and AltActionFired as they
\* were; no other step touches the index; every key event is matched against the
\* index of the current list only, so no binding absent from that list is
\* dispatched, and an extra key held across the change satisfies a chord of the new
\* list.
C17_AtomicRebind ==
    [][/\ IF last'.e.type = "rebind"
          THEN /\ keyBindingsByPrimaryKey' = reduce(keyBindings')
               /\ nonModifierKeysDownRef' = nonModifierKeysDownRef
               /\ altActionRef' = altActionRef
          ELSE /\ keyBindingsByPrimaryKey' = keyBindingsByPrimaryKey
               /\ keyBindings' = keyBindings
       /\ last'.matching # NoBinding =>
              \E i \in 1..Len(keyBindings') : last'.matching = normalized(keyBindings'[i])
       /\ (/\ last.e.type = "rebind" /\ keyBindings = ChordFirst
           /\ "KeyB" \in nonModifierKeysDownRef
           /\ last'.e.type = "keydown" /\ last'.e.code = "KeyA"
           /\ ActiveMods(last'.e) = {} /\ last'.e.target = body /\ ~exportConfirmOpen) =>
              last'.calls = <<Trigger("seekForwards")>>]_vars

C17_Witness ==
    /\ last.e.type = "rebind" /\ keyBindings = ChordFirst
    /\ "KeyB" \in nonModifierKeysDownRef /\ altActionRef

\* C18: on key-up of a non-modifier key that a binding matches, the release handler
\* of the matched action is invoked exactly once when the action has one, and
\* nothing is invoked when it has none; no key-up invokes a trigger handler and no
\* key-down invokes a release handler.
C18_ReleaseOnKeyUp ==
    /\ (KeyUp /\ NonModifierEvent /\ Matching # {}) =>
           LET action == keyBindings[FirstMatching].action
           IN  last.calls = IF action \in keyUpActions THEN <<Release(action)>> ELSE <<>>
    /\ (KeyUp /\ Matching = {}) => last.calls = <<>>
    /\ KeyUp => \A i \in 1..Len(last.calls) : last.calls[i].fn = "release"
    /\ KeyDown => \A i \in 1..Len(last.calls) : last.calls[i].fn # "release"

C18_Witness ==
    /\ KeyUp /\ keyBindings = PlainAndShift /\ last.e.code = "KeyA"
    /\ last.e.shiftKey /\ last.e.target = body /\ ~last.open
    /\ Matching = {2}
    /\ last.calls = <<Release("seekForwards")>>

\* C19: AltActionFired turns true only in a key-down step that invoked a trigger
\* handler with the Alt flag active, and every such step leaves it true; it turns
\* false only in a key-up step of AltLeft or AltRight, and every such step leaves it
\* false; a change of the binding list, a change of the dialog and a window blur
\* leave it as it was, and an Alt key-up that finds it true is consumed however long
\* after.
C19_AltActionFired ==
    [][LET e == last'.e
           dispatching == /\ e.type = "keydown" /\ e.altKey
                          /\ \E i \in 1..Len(last'.calls) : last'.calls[i].fn = "trigger"
       IN  /\ (~altActionRef /\ altActionRef') => dispatching
           /\ (altActionRef /\ ~altActionRef') => AltKeyUp(e)
           /\ dispatching => altActionRef'
           /\ AltKeyUp(e) => ~altActionRef'
           /\ e.type \in {"blur", "rebind", "render"} => altActionRef' = altActionRef
           /\ (AltKeyUp(e) /\ altActionRef) => last'.defaultPrevented]_vars

C19_Witness ==
    /\ last.e.type = "blur" /\ "KeyA" \in last.pressedAtMatch
    /\ altActionRef /\ nonModifierKeysDownRef = {}

\* C20: every key-down of a non-modifier key that a binding matches and the gate lets
\* through invokes the trigger handler of the matched action once, the first of a
\* run of key-downs of a held key and each repeated one alike; a repeated key-down
\* leaves the set of pressed keys as the first left it, and one key-up then removes
\* the key.
C20_AutoRepeat ==
    [][/\ (last'.e.type = "keydown" /\ last'.e.code \notin allModifiers) =>
              /\ (last'.matching # NoBinding /\ (GateSatisfied(last.matching))') =>
                     last'.calls = <<Trigger(last'.matching.action)>>
              /\ repeatCount' > 1 =>
                     /\ last'.e.code \in nonModifierKeysDownRef
                     /\ nonModifierKeysDownRef' = nonModifierKeysDownRef
                     /\ (/\ last'.e = last.e /\ last'.open = last.open
                         /\ keyBindings' = keyBindings) => last'.calls = last.calls
       /\ (last'.e.type = "keyup" /\ repeatCount > 1 /\ last'.e.code = last.e.code) =>
              nonModifierKeysDownRef' = nonModifierKeysDownRef \ {last.e.code}]_vars

C20_Witness ==
    /\ KeyDown /\ last.e.code = "KeyA" /\ repeatCount = MaxRepeat
    /\ last.calls = <<Trigger("gotoTime")>>
    /\ nonModifierKeysDownRef = {"KeyA"}

====
